---- MODULE Spec2Model ----
(***************************************************************************)
(* Model of app/clashroyale.py: the Streamlit clan dashboard.  One action  *)
(* is one run of the script (one operator interaction).  Python values    *)
(* that may be None are wrapped: None is <<>>, a value x is <<x>>.  A     *)
(* dict is a function whose DOMAIN is its set of keys; a string that the  *)
(* code inspects character by character is a sequence of one-character    *)
(* strings.                                                                *)
(***************************************************************************)
EXTENDS Integers, Sequences, FiniteSets, TLC

\* ------------------------------------------------------------- bounds
MaxLen == 3
MaxPlayers == 2
MaxDecks == 1

\* ------------------------------------------------------ python values
None == <<>>
Some(x) == <<x>>
EmptyDict == [k \in {} |-> TRUE]
Get(d, k, default) == IF k \in DOMAIN d THEN d[k] ELSE default
Pop(d, k) == [x \in DOMAIN d \ {k} |-> d[x]]
Put(d, k, v) == [x \in DOMAIN d \cup {k} |-> IF x = k THEN v ELSE d[x]]
\* pandas' missing cell in a text column, and fillna on one cell
NaN == "NaN"
fillna(v, with) == IF v = NaN THEN with ELSE v

\* ------------------------------------------------------------ strings
Alnum == {"A", "B", "a", "0", "_"}
Alphabet == Alnum \cup {"#", "-", " "}
Strings == UNION {[1..n -> Alphabet] : n \in 0..MaxLen}

\* re.sub(r'^#', '', tag) then re.sub(r'[^a-zA-Z0-9_]', '_', ...)
\* variant: the character class also lets '-' through
sanitize_filename_keep(tag) ==
    LET s == IF tag # <<>> /\ Head(tag) = "#" THEN Tail(tag) ELSE tag
    IN  [i \in 1..Len(s) |-> IF s[i] \in Alnum \cup {"-"} THEN s[i] ELSE "_"]
sanitize_filename(tag) ==
    LET sanitized == IF tag # <<>> /\ Head(tag) = "#" THEN Tail(tag) ELSE tag
    IN  [i \in 1..Len(sanitized) |->
            IF sanitized[i] \in Alnum THEN sanitized[i] ELSE "_"]

\* str.strip() and str.upper() of the clan tag input
RECURSIVE lstrip(_)
lstrip(s) == IF s # <<>> /\ Head(s) = " " THEN lstrip(Tail(s)) ELSE s
RECURSIVE rstrip(_)
rstrip(s) ==
    IF s # <<>> /\ s[Len(s)] = " " THEN rstrip(SubSeq(s, 1, Len(s) - 1)) ELSE s
strip(s) == rstrip(lstrip(s))
upper(s) == [i \in 1..Len(s) |->
                CASE s[i] = "a" -> "A"
                  [] OTHER -> s[i]]
startswith(s, c) == s # <<>> /\ Head(s) = c

\* ------------------------------------------------- remote data domains
Players == 1..MaxPlayers
PlayerTag == <<"#P1", "#P2", "#P3">>
PlayerName == <<"Ann", "Bob", "Cid">>
Min(S) == CHOOSE x \in S : \A y \in S : x <= y
RECURSIVE SortedSeq(_)
SortedSeq(S) == IF S = {} THEN <<>> ELSE <<Min(S)>> \o SortedSeq(S \ {Min(S)})

\* one element of the "items" list of GET /clans/{tag}/members
Member(i) == [tag |-> PlayerTag[i], name |-> PlayerName[i]]
Rosters == {[k \in 1..Len(SortedSeq(S)) |-> Member(SortedSeq(S)[k])] : S \in SUBSET Players}

\* one element of clan.participants of GET /clans/{tag}/currentriverrace;
\* the decksUsedToday key may be missing from the dict
Participant(i, d) ==
    IF d = None
    THEN [tag |-> PlayerTag[i], name |-> PlayerName[i]]
    ELSE [tag |-> PlayerTag[i], name |-> PlayerName[i], decksUsedToday |-> d[1]]
DeckOptions == {None} \cup {Some(n) : n \in 0..MaxDecks}
ParticipantLists ==
    UNION {{[k \in 1..Len(SortedSeq(S)) |-> Participant(SortedSeq(S)[k], f[SortedSeq(S)[k]])] :
                f \in [S -> DeckOptions]} : S \in SUBSET Players}

\* what requests.get + raise_for_status + json() can produce: an exception
\* (network error, 403, 404, ...) or the decoded JSON object
HttpError == [ok |-> FALSE, json |-> EmptyDict]
HttpJson(j) == [ok |-> TRUE, json |-> j]
MemberResponses ==
    {HttpError, HttpJson(EmptyDict)} \cup {HttpJson([items |-> r]) : r \in Rosters}
RaceResponses ==
    {HttpError, HttpJson(EmptyDict), HttpJson([state |-> "notInWar"]),
     HttpJson([state |-> "full"])}
    \cup {HttpJson([state |-> s, clan |-> [participants |-> p]]) :
             s \in {"full", "notInWar"}, p \in ParticipantLists}

\* the responses drawn while the whole session is explored (Spec)
SessionMemberResponses ==
    {HttpError, HttpJson([items |-> <<>>]), HttpJson([items |-> <<Member(1)>>]),
     HttpJson([items |-> <<Member(2)>>])}
SessionRaceResponses ==
    {HttpError,
     HttpJson([state |-> "notInWar",
               clan |-> [participants |-> <<Participant(1, Some(0))>>]]),
     HttpJson([state |-> "full",
               clan |-> [participants |-> <<Participant(1, Some(0)), Participant(2, None)>>]])}
\* the responses drawn while the contact table is explored (SpecContacts)
ContactMemberResponses ==
    {HttpError} \cup {HttpJson([items |-> r]) : r \in Rosters}
ContactRaceResponses == {HttpError}

\* --------------------------------------------------------- API gateway
get_api_headers(user_api_token, env) ==
    LET api_token == IF user_api_token # "" THEN user_api_token ELSE env
    IN  IF api_token = "" THEN None ELSE Some([Authorization |-> api_token])

\* result: the value returned, and whether requests.get was reached
fetch_api_data(resp, user_api_token, env) ==
    LET headers == get_api_headers(user_api_token, env)
    IN  IF headers = None THEN [ret |-> None, called |-> FALSE]
        ELSE IF resp.ok THEN [ret |-> Some(resp.json), called |-> TRUE]
        ELSE [ret |-> None, called |-> TRUE]

truthy_dict(data) == data # None /\ DOMAIN data[1] # {}

get_clan_members(resp, user_api_token, env) ==
    LET data == fetch_api_data(resp, user_api_token, env).ret
    IN  IF truthy_dict(data) THEN Some(Get(data[1], "items", <<>>)) ELSE Some(<<>>)

get_current_river_race(resp, user_api_token, env) ==
    LET data == fetch_api_data(resp, user_api_token, env).ret
    IN  IF truthy_dict(data) THEN data[1] ELSE EmptyDict
\* ------------------------------------------------------- contact store
\* The typed clan tags the operator may enter, before strip().upper()
RawClanTags == {<<>>, <<"#", "a">>, <<"a">>, <<" ", "#", "-">>}
ClanTags == {upper(strip(t)) : t \in RawClanTags}
FileNames == {sanitize_filename(t) : t \in ClanTags}

\* pandas writes a missing or empty cell as nothing and reads nothing as NaN
to_csv_cell(v) == IF v = NaN THEN "" ELSE v
read_csv_cell(text) == IF text = "" THEN NaN ELSE text

\* The data directory is taken to exist or to be creatable, so the else
\* branch of os.makedirs (return None) is not taken.
get_clan_csv_filename(clan_tag) == Some(sanitize_filename(clan_tag))

load_player_data(files, clan_tag) ==
    LET filepath == get_clan_csv_filename(clan_tag)
    IN  IF filepath = None THEN <<>>
        ELSE IF files[filepath[1]] = None THEN <<>>
        ELSE LET text == files[filepath[1]][1]
             IN  [i \in 1..Len(text) |->
                     [tag |-> fillna(read_csv_cell(text[i].tag), ""),
                      name |-> fillna(read_csv_cell(text[i].name), ""),
                      phone |-> fillna(read_csv_cell(text[i].phone), "")]]

save_player_data(files, df, clan_tag) ==
    LET filepath == get_clan_csv_filename(clan_tag)
    IN  IF filepath = None THEN files
        ELSE [files EXCEPT ![filepath[1]] =
                 Some([i \in 1..Len(df) |->
                          [tag |-> to_csv_cell(fillna(df[i].tag, "")),
                           name |-> to_csv_cell(fillna(df[i].name, "")),
                           phone |-> to_csv_cell(fillna(df[i].phone, ""))]])]

\* -------------------------------------------------------------- tables
\* pd.merge(left, right[['tag', 'phone']], on='tag', how='left'): every left
\* row once per matching right row, or once with a missing phone
RECURSIVE merge_left(_, _)
merge_left(left, right) ==
    IF left = <<>> THEN <<>>
    ELSE LET l == Head(left)
             hits == SelectSeq(right, LAMBDA r : r.tag = l.tag)
             rows == IF hits = <<>>
                     THEN <<[tag |-> l.tag, name |-> l.name, phone |-> NaN]>>
                     ELSE [i \in 1..Len(hits) |->
                              [tag |-> l.tag, name |-> l.name, phone |-> hits[i].phone]]
         IN  rows \o merge_left(Tail(left), right)

fill_phone(df, with) ==
    [i \in 1..Len(df) |-> [df[i] EXCEPT !.phone = fillna(df[i].phone, with)]]
tag_phone(df, with) ==
    [i \in 1..Len(df) |-> [tag |-> fillna(df[i].tag, with), phone |-> fillna(df[i].phone, with)]]
name_phone(df) ==
    [i \in 1..Len(df) |-> [Nome |-> df[i].name, Telefone |-> df[i].phone]]
TagsOf(df) == {df[i].tag : i \in 1..Len(df)}

\* current_members_info left-joined with the stored phones (members_df[['tag','name']])
combined_data_of(members_data, files, current_tag) ==
    fill_phone(merge_left(members_data, load_player_data(files, current_tag)), "")

\* what st.data_editor can return for a table: rows deleted, phones typed
\* or cleared, rows added (tag and name are not editable)
PhoneInputs == {NaN, "1"}
RECURSIVE SeqEdits(_)
SeqEdits(df) ==
    IF df = <<>> THEN {<<>>}
    ELSE LET rest == SeqEdits(Tail(df))
             h == Head(df)
         IN  rest
             \cup {<<h>> \o r : r \in rest}
             \cup {<<[h EXCEPT !.phone = p]>> \o r : r \in rest, p \in PhoneInputs}
NoAddedRows == {<<>>}
AddedRows == {<<>>} \cup {<<[tag |-> NaN, name |-> NaN, phone |-> p]>> : p \in PhoneInputs}
EditorResults(df, added) == {e \o a : e \in SeqEdits(df), a \in added}

\* pd.DataFrame(participants) with the decksUsedToday column defaulted
participants_df_of(participants) ==
    LET has_column == \E i \in 1..Len(participants) :
                          "decksUsedToday" \in DOMAIN participants[i]
    IN  [i \in 1..Len(participants) |->
            [tag |-> participants[i].tag, name |-> participants[i].name,
             decksUsedToday |->
                 IF ~has_column THEN Some(0)
                 ELSE IF "decksUsedToday" \in DOMAIN participants[i]
                      THEN Some(participants[i].decksUsedToday)
                      ELSE None]]
\* the filter participants_df['decksUsedToday'] == 0
missing_attack_today_of(df) == SelectSeq(df, LAMBDA r : r.decksUsedToday = Some(0))
\* variant: the membership check is left out
verified_missing_tags_all(missing_tags_today, current_member_tags) == missing_tags_today
verified_missing_tags_of(missing_tags_today, current_member_tags) ==
    missing_tags_today \cap current_member_tags
\* variant: the difference is left out
unverified_tags_all(missing_tags_today, current_member_tags) == missing_tags_today
unverified_tags_of(missing_tags_today, current_member_tags) ==
    missing_tags_today \ current_member_tags

\* the fetch handler's check of the clan tag
\* variant: only an empty tag is refused
valid_clan_tag_nonempty(clan_tag) == clan_tag # <<>>
valid_clan_tag(clan_tag) == clan_tag # <<>> /\ startswith(clan_tag, "#")

\* original_phones.equals(edited_phones) decides the write-back
\* variant: every cycle writes
phones_changed_always(combined_data, edited_data) == TRUE
phones_changed(combined_data, edited_data) ==
    tag_phone(combined_data, "") # tag_phone(edited_data, "")

\* river_race_data and river_race_data.get("state") != "notInWar"
\* variant: the state is not looked at
race_shown_any(river_race_data) == DOMAIN river_race_data # {}
race_shown(river_race_data) ==
    DOMAIN river_race_data # {} /\ Get(river_race_data, "state", "None") # "notInWar"

\* --------------------------------------------------------------- state
VARIABLES
    session_state,  \* st.session_state: a dict
    csv,            \* dados_clas/dados_jogadores_<name>.csv, by <name>
    net,            \* the API calls of the last run and what they returned
    ui,             \* what the last run rendered
    report,         \* what the pending-list button produced in the last run
    fname           \* a tag and the file names derived from it

vars == <<session_state, csv, net, ui, report, fname>>

Tokens == {"", "tok"}
NoNet == [fetched |-> FALSE, calls |-> <<>>, members_ok |-> FALSE, members_ret |-> None,
          race_ok |-> FALSE, race_ret |-> EmptyDict, tag |-> <<>>]
NoReport == [generated |-> FALSE, missing_tags_today |-> {}, verified_missing_tags |-> {},
             unverified_tags |-> {}, missing_players_with_phones |-> <<>>,
             download |-> None]
NoUi == [stopped |-> FALSE, header |-> None, editor |-> FALSE,
         combined_data |-> <<>>, edited_data |-> <<>>, saved |-> FALSE,
         button |-> FALSE, messages |-> {}]

loaded(ss) == "data_loaded_for_tag" \in DOMAIN ss /\ ss.data_loaded_for_tag # <<>>

\* the participants the display block tabulates, <<>> when the race part
\* does not get that far
participants_shown(ss) ==
    LET river_race_data == Get(ss, "river_race_data", EmptyDict)
        clan_info == Get(river_race_data, "clan", EmptyDict)
    IN  IF loaded(ss) /\ race_shown(river_race_data) /\ DOMAIN clan_info # {}
        THEN Get(clan_info, "participants", <<>>)
        ELSE <<>>

\* the body of "if st.button('Gerar Lista de Pendentes')"
pending_report(ss, files) ==
    LET current_tag == ss.data_loaded_for_tag
        current_member_tags == TagsOf(Get(ss, "members_data", <<>>))
        participants_df == participants_df_of(participants_shown(ss))
        missing_attack_today == missing_attack_today_of(participants_df)
        missing_tags_today == TagsOf(missing_attack_today)
        verified_missing_tags ==
            verified_missing_tags_of(missing_tags_today, current_member_tags)
        unverified_tags == unverified_tags_of(missing_tags_today, current_member_tags)
        verified_missing_players_info ==
            SelectSeq(missing_attack_today, LAMBDA r : r.tag \in verified_missing_tags)
        player_phone_data == load_player_data(files, current_tag)
        missing_players_with_phones ==
            fill_phone(merge_left(verified_missing_players_info, player_phone_data), "N/A")
        final_missing_list == name_phone(missing_players_with_phones)
    IN  IF missing_attack_today = <<>>
        THEN [NoReport EXCEPT !.generated = TRUE]
        ELSE IF verified_missing_tags = {}
        THEN [NoReport EXCEPT !.generated = TRUE,
                              !.missing_tags_today = missing_tags_today,
                              !.unverified_tags = unverified_tags]
        ELSE [generated |-> TRUE,
              missing_tags_today |-> missing_tags_today,
              verified_missing_tags |-> verified_missing_tags,
              unverified_tags |-> unverified_tags,
              missing_players_with_phones |-> missing_players_with_phones,
              download |-> Some([file_name |-> sanitize_filename(current_tag),
                                 data |-> final_missing_list])]

pending_messages(r) ==
    (IF r.unverified_tags # {} THEN {"warn_left_clan"} ELSE {})
    \cup (IF r.missing_tags_today = {} THEN {"ok_all_used"}
          ELSE IF r.verified_missing_tags = {} THEN {"ok_no_current_pending"}
          ELSE {"pending_table"})
\* ------------------------------------------------- the display block
\* Not kept: the copy of edited_data the run stores under the session key
\* player_phone_data_<tag> (line 292), which nothing reads, and the widget
\* state under data_editor_phones_<name>, which the fetch handler deletes
\* (lines 221-223): the editor's result is an input of the run.
\* Lines 228-401 of one run, as functions of the session state ss and the
\* files.  edit is None when the operator did not touch the contact table
\* in this run (the widget then returns the table it was given), else
\* Some(table returned by st.data_editor).  click is the value of the
\* pending-list button in this run.
display_combined(ss, files) ==
    IF loaded(ss) /\ Get(ss, "members_data", <<>>) # <<>>
    THEN combined_data_of(ss.members_data, files, ss.data_loaded_for_tag)
    ELSE <<>>
display_edited(ss, files, edit) ==
    IF edit = None THEN display_combined(ss, files) ELSE edit[1]
display_saved(ss, files, edit) ==
    /\ loaded(ss)
    /\ Get(ss, "members_data", <<>>) # <<>>
    /\ phones_changed(display_combined(ss, files), display_edited(ss, files, edit))
display_files(ss, files, edit) ==
    IF display_saved(ss, files, edit)
    THEN save_player_data(files, display_edited(ss, files, edit), ss.data_loaded_for_tag)
    ELSE files
display_report(ss, files, edit, click) ==
    IF participants_shown(ss) # <<>> /\ click
    THEN pending_report(ss, display_files(ss, files, edit))
    ELSE NoReport
display_ui(ss, files, edit, click, msgs) ==
    IF loaded(ss)
    THEN [stopped |-> FALSE, header |-> Some(ss.data_loaded_for_tag),
          editor |-> Get(ss, "members_data", <<>>) # <<>>,
          combined_data |-> display_combined(ss, files),
          edited_data |-> display_edited(ss, files, edit),
          saved |-> display_saved(ss, files, edit),
          button |-> participants_shown(ss) # <<>>,
          messages |-> msgs
              \cup (IF Get(ss, "members_data", <<>>) # <<>> THEN {} ELSE {"info_no_members"})
              \cup (IF display_saved(ss, files, edit) THEN {"ok_phones_updated"} ELSE {})
              \cup (IF race_shown(Get(ss, "river_race_data", EmptyDict)) THEN {}
                    ELSE {"info_not_participating"})
              \cup (IF display_report(ss, files, edit, click).generated
                    THEN pending_messages(display_report(ss, files, edit, click))
                    ELSE {})]
    ELSE [NoUi EXCEPT !.messages = msgs \cup
                          (IF ss.clan_tag = <<>> THEN {"info_enter_tag"}
                           ELSE IF ss.api_token = "" THEN {"warn_enter_token"}
                           ELSE {})]

Display(ss, edit, click, msgs) ==
    /\ csv' = display_files(ss, csv, edit)
    /\ report' = display_report(ss, csv, edit, click)
    /\ ui' = display_ui(ss, csv, edit, click, msgs)

\* st.stop(): nothing below the fetch handler runs
Stop(msgs) ==
    /\ csv' = csv
    /\ report' = NoReport
    /\ ui' = [NoUi EXCEPT !.stopped = TRUE, !.messages = msgs]

\* ------------------------------------------------------------- actions
NoName == [tag |-> <<>>, name |-> <<>>, again |-> <<>>, step |-> "tag"]

\* os.getenv("CLASH_ROYALE_API_TOKEN", "") is an input of the run that reads
\* it: env below.  The key input starts as the environment's value.
InitWith(env, files) ==
    /\ session_state = [api_token |-> env, clan_tag |-> <<>>]
    /\ csv = files
    /\ net = NoNet
    /\ report = NoReport
    /\ ui = display_ui(session_state, csv, None, FALSE, {})
    /\ fname = NoName

NoFiles == [f \in FileNames |-> None]
Init == \E env \in Tokens : InitWith(env, NoFiles)

\* the operator changes the API key input
TypeToken(t) ==
    /\ t # session_state.api_token
    /\ session_state' = Put(session_state, "api_token", t)
    /\ net' = NoNet
    /\ Display(session_state', None, FALSE, {})
    /\ UNCHANGED fname

\* the operator changes the clan tag input
TypeTag(raw) ==
    /\ upper(strip(raw)) # session_state.clan_tag
    /\ session_state' = Put(session_state, "clan_tag", upper(strip(raw)))
    /\ net' = NoNet
    /\ Display(session_state', None, FALSE, {})
    /\ UNCHANGED fname

\* the session state the fetch handler stores (both non-None branches)
\* variant: the event snapshot of the earlier fetch is left in place
fetch_stored_members_only(ss, members_data, river_race_data) ==
    Put(Put(ss, "members_data", members_data), "data_loaded_for_tag", ss.clan_tag)
fetch_stored(ss, members_data, river_race_data) ==
    Put(Put(Put(ss, "members_data", members_data),
            "river_race_data", river_race_data),
        "data_loaded_for_tag", ss.clan_tag)
fetch_cleared(ss) ==
    Pop(Pop(Pop(ss, "members_data"), "river_race_data"), "data_loaded_for_tag")

\* the operator presses "Buscar Dados do Cla"
Fetch(mresp, rresp, env) ==
    LET clan_tag == session_state.clan_tag
        user_api_token == session_state.api_token
        m == fetch_api_data(mresp, user_api_token, env)
        r == fetch_api_data(rresp, user_api_token, env)
        members_data == get_clan_members(mresp, user_api_token, env)
        river_race_data == get_current_river_race(rresp, user_api_token, env)
    IN  /\ UNCHANGED fname
        /\ IF session_state.api_token = ""
           THEN /\ session_state' = session_state
                /\ net' = NoNet
                /\ Stop({"err_no_token"})
           ELSE IF ~valid_clan_tag(session_state.clan_tag)
           THEN /\ session_state' = session_state
                /\ net' = NoNet
                /\ Stop({"warn_bad_tag"})
           ELSE /\ net' = [fetched |-> TRUE,
                           calls |-> (IF m.called THEN <<"members">> ELSE <<>>)
                                     \o (IF r.called THEN <<"currentriverrace">> ELSE <<>>),
                           members_ok |-> mresp.ok,
                           members_ret |-> members_data,
                           race_ok |-> rresp.ok,
                           race_ret |-> river_race_data,
                           tag |-> clan_tag]
                /\ IF members_data = None
                   THEN /\ session_state' = fetch_cleared(session_state)
                        /\ Stop({"err_fetch_failed"})
                   ELSE IF members_data[1] = <<>>
                   THEN /\ session_state' = fetch_stored(session_state, <<>>, river_race_data)
                        /\ Display(session_state', None, FALSE, {"warn_no_members"})
                   ELSE /\ session_state' =
                               fetch_stored(session_state, members_data[1], river_race_data)
                        /\ Display(session_state', None, FALSE, {})

\* the operator edits the contact table
EditContacts(edited_data) ==
    /\ ui.editor
    /\ edited_data \in EditorResults(display_combined(session_state, csv), AddedRows)
    /\ session_state' = session_state
    /\ net' = NoNet
    /\ Display(session_state', Some(edited_data), FALSE, {})
    /\ UNCHANGED fname

\* the operator presses "Gerar Lista de Pendentes"
GeneratePending ==
    /\ ui.button
    /\ session_state' = session_state
    /\ net' = NoNet
    /\ Display(session_state', None, TRUE, {})
    /\ UNCHANGED fname

\* ------------------------------------------------------ specifications
\* the whole session: every action, two clans, rosters of one member
Next ==
    \/ \E t \in Tokens : TypeToken(t)
    \/ \E raw \in RawClanTags : TypeTag(raw)
    \/ \E mresp \in SessionMemberResponses, rresp \in SessionRaceResponses, env \in Tokens :
           Fetch(mresp, rresp, env)
    \/ \E edited_data \in EditorResults(display_combined(session_state, csv), NoAddedRows) :
           EditContacts(edited_data)
    \/ GeneratePending

Spec == Init /\ [][Next]_vars

\* the contact table of one clan: every roster, rows deleted and added
InitContacts == InitWith("tok", NoFiles)
NextContacts ==
    \/ TypeTag(<<"#", "a">>)
    \/ \E mresp \in ContactMemberResponses, rresp \in ContactRaceResponses :
           Fetch(mresp, rresp, "tok")
    \/ \E edited_data \in EditorResults(display_combined(session_state, csv), AddedRows) :
           EditContacts(edited_data)

SpecContacts == InitContacts /\ [][NextContacts]_vars

\* the pending list: one clan loaded by a fetch, every roster and every
\* event snapshot, with and without stored phones
LoadedTag == <<"#", "A">>
StoredPhones ==
    [NoFiles EXCEPT ![sanitize_filename(LoadedTag)] =
        Some([i \in Players |->
                 [tag |-> PlayerTag[i], name |-> PlayerName[i],
                  phone |-> IF i = Min(Players) THEN "1" ELSE ""]])]
InitPending ==
    \E mresp \in MemberResponses, rresp \in RaceResponses, files \in {NoFiles, StoredPhones} :
        /\ session_state =
               fetch_stored([api_token |-> "tok", clan_tag |-> LoadedTag],
                            get_clan_members(mresp, "tok", "")[1],
                            get_current_river_race(rresp, "tok", ""))
        /\ csv = files
        /\ net = NoNet
        /\ report = NoReport
        /\ ui = display_ui(session_state, csv, None, FALSE, {})
        /\ fname = NoName
NextPending == GeneratePending

SpecPending == InitPending /\ [][NextPending]_vars

\* the file name of a clan tag, for every string over the alphabet
GetFileName ==
    /\ fname.step = "tag"
    /\ fname' = [fname EXCEPT !.name = get_clan_csv_filename(fname.tag)[1], !.step = "name"]
    /\ UNCHANGED <<session_state, csv, net, ui, report>>
GetFileNameAgain ==
    /\ fname.step = "name"
    /\ fname' = [fname EXCEPT !.again = get_clan_csv_filename(fname.name)[1], !.step = "again"]
    /\ UNCHANGED <<session_state, csv, net, ui, report>>
InitSanitize ==
    /\ session_state = [api_token |-> "", clan_tag |-> <<>>]
    /\ csv = NoFiles
    /\ net = NoNet
    /\ report = NoReport
    /\ ui = display_ui(session_state, csv, None, FALSE, {})
    /\ fname \in {[NoName EXCEPT !.tag = t] : t \in Strings}
NextSanitize == GetFileName \/ GetFileNameAgain

SpecSanitize == InitSanitize /\ [][NextSanitize]_vars

\* ------------------------------------------------------------- claims
\* what the claims read off the session
LoadedParticipants ==
    Get(Get(Get(session_state, "river_race_data", EmptyDict), "clan", EmptyDict),
        "participants", <<>>)
LoadedMemberTags ==
    {Get(session_state, "members_data", <<>>)[i].tag :
        i \in 1..Len(Get(session_state, "members_data", <<>>))}
PendingTags ==
    {report.missing_players_with_phones[i].tag :
        i \in 1..Len(report.missing_players_with_phones)}
LacksDecks(p) == "decksUsedToday" \notin DOMAIN p
ZeroOrAbsent == {LoadedParticipants[i].tag : i \in
                    {j \in 1..Len(LoadedParticipants) :
                        \/ LacksDecks(LoadedParticipants[j])
                        \/ LoadedParticipants[j].decksUsedToday = 0}}
UsedSome == {LoadedParticipants[i].tag : i \in
                {j \in 1..Len(LoadedParticipants) :
                    /\ ~LacksDecks(LoadedParticipants[j])
                    /\ LoadedParticipants[j].decksUsedToday > 0}}

\* C1: after the pending-list action every identifier in the pending list is
\* a participant with zero decks used today and a current member; nobody who
\* used a deck or left the clan is in the list, and the exported file holds
\* exactly the rows of the list.
C1_PendingAreZeroUsageMembers ==
    report.generated =>
        /\ PendingTags \subseteq ZeroOrAbsent \cap LoadedMemberTags
        /\ PendingTags \cap UsedSome = {}
        /\ report.download # None =>
               /\ Len(report.download[1].data) = Len(report.missing_players_with_phones)
               /\ \A i \in 1..Len(report.download[1].data) :
                      /\ report.download[1].data[i].Nome =
                             report.missing_players_with_phones[i].name
                      /\ report.download[1].data[i].Telefone =
                             report.missing_players_with_phones[i].phone
        /\ report.download = None => PendingTags = {}
C1_Witness ==
    /\ report.generated
    /\ PendingTags # {}
    /\ report.download # None
    /\ ZeroOrAbsent \ LoadedMemberTags # {}

\* C6: every participant without the decksUsedToday field counts as zero
\* usage: it is in the zero-usage set, and in the pending list if it is a
\* member, whatever fields the other participants carry.
C6_AbsentFieldCountsAsZero ==
    report.generated =>
        \A i \in 1..Len(LoadedParticipants) :
            LacksDecks(LoadedParticipants[i]) =>
                /\ LoadedParticipants[i].tag \in report.missing_tags_today
                /\ LoadedParticipants[i].tag \in LoadedMemberTags =>
                       LoadedParticipants[i].tag \in PendingTags

\* C7: the pending set and the unverified set partition the participants
\* whose decksUsedToday is 0: unverified is that set minus the members, the
\* union is the whole set, the intersection is empty.
ZeroUsage ==
    {participants_df_of(LoadedParticipants)[i].tag : i \in
        {j \in 1..Len(LoadedParticipants) :
            participants_df_of(LoadedParticipants)[j].decksUsedToday = <<0>>}}
LoadedNotInWar ==
    /\ loaded(session_state)
    /\ Get(Get(session_state, "river_race_data", EmptyDict), "state", "None") = "notInWar"
C9_NotInWarSkipsPending ==
    LoadedNotInWar =>
        /\ ~ui.button
        /\ ~report.generated
        /\ report.download = None
        /\ report.missing_players_with_phones = <<>>
        /\ ui.header # None => "info_not_participating" \in ui.messages
C9_Witness ==
    /\ LoadedNotInWar
    /\ LoadedParticipants # <<>>
    /\ ui.header # None

\* C10: the file name of a tag holds only letters, digits and '_', and
\* deriving the file name of a file name changes nothing.
C10_SanitizeClassAndIdempotent ==
    /\ fname.step # "tag" =>
           \A i \in 1..Len(fname.name) : fname.name[i] \notin {"#", "-", " "}
    /\ fname.step = "again" => fname.again = fname.name
C10_Witness ==
    /\ fname.step = "again"
    /\ Len(fname.tag) > 1
    /\ fname.tag[1] = "#"
    /\ fname.tag[2] = "#"
    /\ fname.name # fname.tag

\* C2: a contact record is never deleted automatically: a record stored with
\* a phone for an identifier that is not in the roster stays in the clan's
\* store through every fetch, contact edit and save.
StoredTags(files, f) ==
    IF files[f] = None THEN {}
    ELSE {files[f][1][i].tag : i \in 1..Len(files[f][1])}
StoredTagsWithPhone(files, f) ==
    IF files[f] = None THEN {}
    ELSE {files[f][1][i].tag : i \in
             {j \in 1..Len(files[f][1]) :
                 files[f][1][j].tag # "" /\ files[f][1][j].phone # ""}}
C2_ContactRecordsKept ==
    [][\A f \in FileNames : \A t \in StoredTagsWithPhone(csv, f) :
           t \notin LoadedMemberTags' => t \in StoredTags(csv', f)]_vars

\* C3: the member fetch returns null on a transport or authorization
\* failure, and the empty sequence only when the remote system answered.
C3_MemberFetchNullOnFailure ==
    net.fetched =>
        /\ ~net.members_ok => net.members_ret = None
        /\ net.members_ret = <<<<>>>> => net.members_ok

\* C4: after a fetch whose roster call failed the session is not loaded:
\* members_data, river_race_data and data_loaded_for_tag are gone and no
\* roster is displayed.
C4_FailedFetchClearsSession ==
    (net.fetched /\ ~net.members_ok) =>
        /\ DOMAIN session_state \cap
               {"members_data", "river_race_data", "data_loaded_for_tag"} = {}
        /\ ui.header = None

\* C5: a fetch pressed with no API key, or with a clan tag that is empty or
\* does not start with '#', makes no API call and leaves the session and the
\* contact store as they were, with a message to the operator.
FetchStep == net'.fetched \/ ui'.stopped
PreconditionFails ==
    \/ session_state.api_token = ""
    \/ Len(session_state.clan_tag) = 0
    \/ session_state.clan_tag[1] # "#"
LoadedData(ss) ==
    [k \in DOMAIN ss \cap {"members_data", "river_race_data", "data_loaded_for_tag"} |-> ss[k]]
C5_RejectedFetchChangesNothing ==
    [][(FetchStep /\ PreconditionFails) =>
           /\ DOMAIN LoadedData(session_state') = DOMAIN LoadedData(session_state)
           /\ \A k \in DOMAIN LoadedData(session_state) :
                  LoadedData(session_state')[k] = LoadedData(session_state)[k]
           /\ csv' = csv
           /\ net'.calls = <<>>
           /\ ~net'.fetched
           /\ ui'.messages \cap {"err_no_token", "warn_bad_tag"} # {}]_vars
C5_Witness ==
    /\ ui.stopped
    /\ ~net.fetched
    /\ loaded(session_state)
    /\ \E f \in FileNames : StoredTagsWithPhone(csv, f) # {}

\* C8: the contact store is written in a cycle only when the table returned
\* by the editor differs from the pre-edit join in an identifier or a phone;
\* a cycle without such a difference writes nothing.
Blank(v) == IF v = "NaN" THEN "" ELSE v
TablesDiffer(a, b) ==
    \/ Len(a) # Len(b)
    \/ \E i \in 1..Len(a) :
           \/ Blank(a[i].tag) # Blank(b[i].tag)
           \/ Blank(a[i].phone) # Blank(b[i].phone)
C8_WriteOnlyOnDifference ==
    [][/\ csv' # csv => ui'.saved
       /\ ui'.saved => TablesDiffer(ui'.combined_data, ui'.edited_data)
       /\ ui'.editor => ui'.combined_data = display_combined(session_state', csv)]_vars
C8_Witness ==
    /\ ui.saved
    /\ \E i \in 1..Len(ui.edited_data) :
           /\ i <= Len(ui.combined_data)
           /\ ui.combined_data[i].phone = "1"
           /\ ui.edited_data[i].phone = NaN

\* C11: members_data, river_race_data and data_loaded_for_tag are all absent or
\* all present; they change only in a fetch, which stores the roster and the
\* snapshot it got itself under the tag it was pressed for; typing another
\* clan tag changes none of them; the contact table is read from, and written
\* to, the file of data_loaded_for_tag and no other file.
LoadedKeys == {"members_data", "river_race_data", "data_loaded_for_tag"}
AllOrNone(ss) == DOMAIN ss \cap LoadedKeys \in {{}, LoadedKeys}
SameLoaded(a, b) ==
    /\ DOMAIN a \cap LoadedKeys = DOMAIN b \cap LoadedKeys
    /\ \A k \in DOMAIN a \cap LoadedKeys : a[k] = b[k]
LoadedFile(ss) == sanitize_filename(ss.data_loaded_for_tag)
StoredPhoneOf(files, f, t) ==
    IF files[f] = None THEN {}
    ELSE {files[f][1][i].phone : i \in {j \in 1..Len(files[f][1]) : files[f][1][j].tag = t}}
C11_SessionFieldsFromOneFetch ==
    /\ AllOrNone(session_state)
    /\ [][/\ AllOrNone(session_state')
          /\ ~SameLoaded(session_state, session_state') => net'.fetched
          /\ net'.fetched =>
                 /\ net'.tag = session_state.clan_tag
                 /\ LoadedKeys \subseteq DOMAIN session_state'
                 /\ session_state'.data_loaded_for_tag = net'.tag
                 /\ session_state'.members_data = net'.members_ret[1]
                 /\ session_state'.river_race_data = net'.race_ret
          /\ session_state'.clan_tag # session_state.clan_tag =>
                 SameLoaded(session_state, session_state')
          /\ \A f \in FileNames : csv'[f] # csv[f] =>
                 /\ LoadedKeys \subseteq DOMAIN session_state'
                 /\ f = LoadedFile(session_state')
          /\ ui'.editor =>
                 \A i \in 1..Len(ui'.combined_data) :
                     ui'.combined_data[i].phone \in
                         StoredPhoneOf(csv, LoadedFile(session_state'),
                                       ui'.combined_data[i].tag) \cup {""}
          /\ report'.download # None =>
                 report'.download[1].file_name = LoadedFile(session_state')]_vars
C11_Witness ==
    /\ LoadedKeys \subseteq DOMAIN session_state
    /\ valid_clan_tag(session_state.clan_tag)
    /\ sanitize_filename(session_state.clan_tag) # LoadedFile(session_state)
    /\ ui.saved
    /\ csv[LoadedFile(session_state)] # None
    /\ csv[sanitize_filename(session_state.clan_tag)] = None
    /\ \E i \in 1..Len(ui.combined_data) : ui.combined_data[i].phone = "1"
====
